---- MODULE Spec2Model ----
(***************************************************************************)
(* A model of flit's source-distribution builder (flit/sdist.py):          *)
(*   - include_path / SdistBuilder.find_tracked_files (the file filter),   *)
(*   - auto_packages (sub-package and package_data discovery),             *)
(*   - clean_tarinfo and SdistBuilder.build (the archive writer).          *)
(* Python strings are TLA+ strings; the string operations the code uses    *)
(* (startswith, endswith, in, split, join, sorted) are defined below on    *)
(* the characters of the strings.                                          *)
(***************************************************************************)
EXTENDS Integers, Sequences, FiniteSets, TLC

VARIABLES
    \* ---- SdistBuilder.find_tracked_files / build ----
    rawTracked,     \* vcs_mod.list_tracked_files(srcdir), in the VCS's order
    rawUntracked,   \* vcs_mod.list_untracked_deleted_files(srcdir)
    isPackage,      \* self.module.is_package
    epochEnv,       \* os.environ.get('SOURCE_DATE_EPOCH', '')
    disk,           \* what stat reports for the files: times, owner (per build)
    pc,             \* position of build()
    mtime,          \* local mtime of build(): None or an integer
    target,         \* the file <target_dir>/<name>-<version>.tar.gz on disk
    gz,             \* the GzipFile: its state and the timestamp of its header
    tf,             \* the TarFile: "none", "open" or "closed"
    files_to_add,   \* local files_to_add of build()
    idx,            \* position of the for loop over files_to_add
    entries,        \* the members written to the archive so far
    error,          \* the exception build() is propagating, or "none"
    closeLog,       \* the handles closed so far, in order
    setupCalls,     \* number of calls of make_setup_py
    run,            \* 1 for the first build, 2 for the rebuild
    archive1,       \* what the first build produced (rebuild specification)
    \* ---- auto_packages ----
    dirs,           \* the directories below pkgdir (paths relative to pkgdir)
    inits,          \* the directories that hold an __init__.py
    walk,           \* the directories os.walk has yielded so far, in order
    ap,             \* locals of auto_packages: subpkg_paths, packages, pkg_data
    apResult        \* the value auto_packages returned, or None

buildVars == <<rawTracked, rawUntracked, isPackage, epochEnv, disk, pc, mtime, target,
               gz, tf, files_to_add, idx, entries, error, closeLog, setupCalls,
               run, archive1>>
pkgVars == <<dirs, inits, walk, ap, apResult>>
vars == <<buildVars, pkgVars>>
\* what no step of build() changes
inputVars == <<rawTracked, rawUntracked, isPackage, epochEnv, disk, run, archive1,
               pkgVars>>

\* Python's None, and a value that is not None, where a local can be either
None == <<>>
Some(x) == <<x>>

(***************************************************************************)
(* Bounds of the model.                                                    *)
(***************************************************************************)
\* longest list list_tracked_files returns
MaxTracked == 2
\* longest list list_untracked_deleted_files returns
MaxUntracked == 1
\* most directories below pkgdir in a tree given to auto_packages
MaxDirs == 3
\* most directory segments of a path the version control system lists
MaxPathDirs == 2

(***************************************************************************)
(* Python string operations.                                               *)
(***************************************************************************)
\* The characters of the strings the model sorts (paths, package names and
\* glob patterns), in code point order.
Alphabet ==
    "*-./0123456789ABCDEFGHIJKLMNOPQRSTUVWXYZ_abcdefghijklmnopqrstuvwxyz"

RECURSIVE OrdFrom(_, _)
OrdFrom(c, i) ==
    IF i > Len(Alphabet) THEN 0
    ELSE IF SubSeq(Alphabet, i, i) = c THEN i ELSE OrdFrom(c, i + 1)

\* ord(c), up to an order-preserving renumbering of the characters used
Ord(c) == OrdFrom(c, 1)

\* s.startswith(prefix)
StartsWith(s, prefix) ==
    Len(s) >= Len(prefix) /\ SubSeq(s, 1, Len(prefix)) = prefix

\* s.endswith(suffix)
EndsWith(s, suffix) ==
    Len(s) >= Len(suffix) /\ SubSeq(s, Len(s) - Len(suffix) + 1, Len(s)) = suffix

\* sub in s
Contains(s, sub) ==
    \E i \in 1..(Len(s) - Len(sub) + 1) : SubSeq(s, i, i + Len(sub) - 1) = sub

\* s.split(delim) for a one-character separator
RECURSIVE SplitFrom(_, _, _, _)
SplitFrom(s, delim, i, cur) ==
    IF i > Len(s) THEN <<cur>>
    ELSE IF SubSeq(s, i, i) = delim
         THEN <<cur>> \o SplitFrom(s, delim, i + 1, "")
         ELSE SplitFrom(s, delim, i + 1, cur \o SubSeq(s, i, i))

Split(s, delim) == SplitFrom(s, delim, 1, "")

\* delim.join(parts)
RECURSIVE Join(_, _)
Join(parts, delim) ==
    IF Len(parts) = 0 THEN ""
    ELSE IF Len(parts) = 1 THEN parts[1]
    ELSE parts[1] \o delim \o Join(Tail(parts), delim)

\* a < b for str: lexicographic by code point
RECURSIVE StrLess(_, _)
StrLess(a, b) ==
    IF Len(b) = 0 THEN FALSE
    ELSE IF Len(a) = 0 THEN TRUE
    ELSE IF Head(a) = Head(b) THEN StrLess(Tail(a), Tail(b))
    ELSE Ord(Head(a)) < Ord(Head(b))

RECURSIVE InsertSorted(_, _)
InsertSorted(x, s) ==
    IF Len(s) = 0 THEN <<x>>
    ELSE IF StrLess(x, Head(s)) THEN <<x>> \o s
    ELSE <<Head(s)>> \o InsertSorted(x, Tail(s))

\* sorted(s) for a list of str
RECURSIVE Sorted(_)
Sorted(s) ==
    IF Len(s) = 0 THEN <<>>
    ELSE InsertSorted(s[Len(s)], Sorted(SubSeq(s, 1, Len(s) - 1)))

\* x in list
InSeq(x, s) == \E i \in 1..Len(s) : s[i] = x

\* posixpath.join(a, b) for a relative b and a non-empty a without trailing slash
pjoin(a, b) == a \o "/" \o b

(***************************************************************************)
(* include_path and SdistBuilder.find_tracked_files.                       *)
(***************************************************************************)
sep == "/"

include_path(p) ==
    ~ ( \/ StartsWith(p, "dist" \o sep)
        \/ Contains(p, sep \o "__pycache__")
        \/ EndsWith(p, ".pyc") )

\* list(filter(include_path, untracked_deleted)) is not empty: VCSError
UntrackedInScope(untracked_deleted) ==
    SelectSeq(untracked_deleted, include_path) # <<>>

\* the value find_tracked_files returns when it raises nothing
TrackedFiles(files) == Sorted(SelectSeq(files, include_path))

(***************************************************************************)
(* auto_packages.                                                          *)
(***************************************************************************)
\* os.path.normpath for a relative path without "..": empty and "." segments go
IsRealSegment(seg) == seg # "" /\ seg # "."
normpath(path) == Join(SelectSeq(Split(path, sep), IsRealSegment), sep)

\* os.path.basename
basename(path) == LET parts == Split(path, sep) IN parts[Len(parts)]

\* os.path.relpath(path, start) for a path that is start or lies below it
os_relpath(path, start) ==
    IF path = start THEN "." ELSE SubSeq(path, Len(start) + 2, Len(path))

\* the argument auto_packages is called with: str(self.module.path)
PkgDirArg == "proj/foo"
pkgdir == normpath(PkgDirArg)
pkg_name == basename(pkgdir)

\* a dict: the keys d.keys() and the value d[k]; defaultdict(list) gives [] for
\* a key it does not hold
EmptyDict == [k \in {} |-> <<>>]
DictGet(d, k) == IF k \in DOMAIN d THEN d[k] ELSE <<>>
DictAppend(d, k, v) ==
    [x \in DOMAIN d \cup {k} |-> IF x = k THEN Append(DictGet(d, k), v) ELSE d[x]]

\* the locals without the catch-all pattern of line 52
InitialLocals_noCatchAll ==
    [ subpkg_paths |-> {}, packages |-> <<pkg_name>>, pkg_data |-> EmptyDict ]

\* lines 50-54: the locals before the walk
InitialLocals ==
    [ subpkg_paths |-> {},
      packages     |-> <<pkg_name>>,
      pkg_data     |-> DictAppend(EmptyDict, "", "*") ]

\* the loop of lines 58-62 without reversed(): the smallest i
NearestIndex_shallowest(parts, subpkg_paths) ==
    LET hits == {i \in 1..(Len(parts) - 1) :
                    Join(SubSeq(parts, 1, i), "/") \in subpkg_paths}
    IN IF hits = {} THEN 0 ELSE CHOOSE i \in hits : \A j \in hits : i <= j

\* find_nearest_pkg, lines 58-62: the largest i in 1..len(parts)-1 whose
\* ancestor is a known sub-package, 0 when there is none
NearestIndex(parts, subpkg_paths) ==
    LET hits == {i \in 1..(Len(parts) - 1) :
                    Join(SubSeq(parts, 1, i), "/") \in subpkg_paths}
    IN IF hits = {} THEN 0 ELSE CHOOSE i \in hits : \A j \in hits : j <= i

\* find_nearest_pkg: the pair (pkg, path relative to pkg)
find_nearest_pkg(rel_path, subpkg_paths) ==
    LET parts == Split(rel_path, sep)
        i == NearestIndex(parts, subpkg_paths)
    IN IF i > 0
       THEN << Join(<<pkg_name>> \o SubSeq(parts, 1, i), "."),
               Join(SubSeq(parts, i + 1, Len(parts)), "/") >>
       ELSE << pkg_name, rel_path >>

\* the body of the for loop, lines 68-82, for one (path, dirnames, filenames)
VisitDir(loc, path, filenames) ==
    IF basename(path) = "__pycache__" THEN loc
    ELSE LET from_top_level == os_relpath(path, pkgdir) IN
         IF from_top_level = "." THEN loc
         ELSE IF "__init__.py" \in filenames
              THEN [loc EXCEPT
                      !.subpkg_paths = @ \cup {from_top_level},
                      !.packages = Append(@, Join(<<pkg_name>> \o
                                       Split(from_top_level, sep), "."))]
              ELSE LET near == find_nearest_pkg(from_top_level, loc.subpkg_paths)
                   IN [loc EXCEPT
                         !.pkg_data = DictAppend(@, near[1], pjoin(near[2], "*"))]

\* lines 84-87: the returned pair
Returned(loc) ==
    [ packages |-> Sorted(loc.packages),
      pkg_data |-> [k \in DOMAIN loc.pkg_data |-> Sorted(loc.pkg_data[k])] ]

(***************************************************************************)
(* The directory trees auto_packages is given, and os.walk over them.      *)
(***************************************************************************)
\* names a directory below pkgdir can have
DirNames == {"sub", "data", "__pycache__"}

\* a directory is named by its path relative to pkgdir; pkgdir itself is "."
ChildPath(parent, name) == IF parent = "." THEN name ELSE parent \o sep \o name
ParentPath(d) ==
    LET parts == Split(d, sep)
    IN IF Len(parts) = 1 THEN "." ELSE Join(SubSeq(parts, 1, Len(parts) - 1), sep)
FullPath(d) == IF d = "." THEN pkgdir ELSE pkgdir \o sep \o d

\* every set of at most n directories that holds the parent of each member
RECURSIVE TreesUpTo(_)
TreesUpTo(n) ==
    IF n = 0 THEN {{}}
    ELSE LET prev == TreesUpTo(n - 1)
         IN prev \cup UNION {{t \cup {ChildPath(p, nm)} :
                                 p \in t \cup {"."}, nm \in DirNames} : t \in prev}

\* the filenames os.walk reports for a directory
FileNames(d, withInit) ==
    IF d \in withInit THEN {"__init__.py", "data.txt"} ELSE {"data.txt"}

\* d itself, its parent, ... up to pkgdir
RECURSIVE AncestorsOrSelf(_)
AncestorsOrSelf(d) ==
    IF d = "." THEN {"."} ELSE {d} \cup AncestorsOrSelf(ParentPath(d))

Depth(d) == IF d = "." THEN 0 ELSE Len(Split(d, sep))

\* os.walk(topdown=True) is a depth-first preorder: the directories it can
\* yield next are the sub-directories, not yet yielded, of the deepest
\* directory on the current path that still has some (scandir's order among
\* siblings is the file system's)
Unyielded(tree, yielded, parent) ==
    {d \in tree : ParentPath(d) = parent /\ ~InSeq(d, yielded)}

NextYields(tree, yielded) ==
    IF yielded = <<>> THEN {"."}
    ELSE LET open == {a \in AncestorsOrSelf(yielded[Len(yielded)]) :
                         Unyielded(tree, yielded, a) # {}}
         IN IF open = {} THEN {}
            ELSE LET a == CHOOSE x \in open : \A y \in open : Depth(y) <= Depth(x)
                 IN Unyielded(tree, yielded, a)

(***************************************************************************)
(* The states in which a part of the program is not running.               *)
(***************************************************************************)
IdleDisk == [st_mtime |-> 0, st_uid |-> 0, st_gid |-> 0, uname |-> "", gname |-> ""]

BuildIdle ==
    /\ rawTracked = <<>> /\ rawUntracked = <<>> /\ isPackage = FALSE
    /\ epochEnv = "" /\ disk = IdleDisk /\ pc = "idle" /\ mtime = None
    /\ target = "absent"
    /\ gz = [state |-> "none", mtime |-> 0] /\ tf = "none"
    /\ files_to_add = <<>> /\ idx = 0 /\ entries = <<>> /\ error = "none"
    /\ closeLog = <<>> /\ setupCalls = 0 /\ run = 1 /\ archive1 = None

PkgIdle ==
    /\ dirs = {} /\ inits = {} /\ walk = <<>>
    /\ ap = InitialLocals /\ apResult = None

(***************************************************************************)
(* Specification SpecPkg: one call of auto_packages on any tree.           *)
(***************************************************************************)
InitPkg ==
    /\ BuildIdle
    /\ dirs \in TreesUpTo(MaxDirs)
    /\ inits \in SUBSET dirs
    /\ walk = <<>>
    /\ ap = InitialLocals
    /\ apResult = None

\* one iteration of the for loop over os.walk
WalkStep ==
    /\ apResult = None
    /\ \E d \in NextYields(dirs, walk) :
          /\ walk' = Append(walk, d)
          /\ ap' = VisitDir(ap, FullPath(d), FileNames(d, inits))
    /\ UNCHANGED <<dirs, inits, apResult, buildVars>>

\* the walk is over: sort and return
ReturnPkg ==
    /\ apResult = None
    /\ walk # <<>>
    /\ NextYields(dirs, walk) = {}
    /\ apResult' = Some(Returned(ap))
    /\ UNCHANGED <<dirs, inits, walk, ap, buildVars>>

NextPkg == WalkStep \/ ReturnPkg

SpecPkg == InitPkg /\ [][NextPkg]_vars

(***************************************************************************)
(* Properties of auto_packages (specification SpecPkg).                    *)
(***************************************************************************)
PkgReturned == apResult # None
ResPackages == apResult[1].packages
ResPkgData == apResult[1].pkg_data

\* the dotted import path of directory d, and of pkgdir itself
DottedName(d) == IF d = "." THEN pkg_name
                 ELSE pkg_name \o "." \o Join(Split(d, "/"), ".")
\* the path of d relative to its ancestor a
RelTo(d, a) == IF a = "." THEN d ELSE SubSeq(d, Len(a) + 2, Len(d))
ProperAncestors(d) == AncestorsOrSelf(d) \ {d}
HasPycacheSegment(d) == InSeq("__pycache__", Split(d, "/"))

\* the directories the loop body handled: yielded, not pkgdir, not skipped
Visited == {d \in dirs : InSeq(d, walk) /\ basename(d) # "__pycache__"}
RecordedSubPkgs == {d \in Visited : d \in inits}
DataDirs == {d \in Visited : d \notin inits}

\* the deepest proper ancestor of d recorded as a sub-package, else pkgdir
Boundary(d) ==
    LET cands == (ProperAncestors(d) \cap RecordedSubPkgs) \cup {"."}
    IN CHOOSE a \in cands : \A b \in cands : Depth(b) <= Depth(a)
ExpectedGlob(d) == RelTo(d, Boundary(d)) \o "/*"

\* C7 as stated: every directory below the root with an __init__.py is in the
\* returned package list, and package_data has an entry under that
\* sub-package's dotted name whose list contains the pattern *.
C7_SubPkgOwnsStar ==
    PkgReturned =>
        \A d \in dirs : d \in inits =>
            /\ InSeq(DottedName(d), ResPackages)
            /\ InSeq("*", DictGet(ResPkgData, DottedName(d)))

\* C7 amended: every directory below the root with an __init__.py, not itself
\* named __pycache__, is in the returned package list; the pattern * that
\* covers the files lying directly in it is filed under the empty-string key,
\* which is always present, and never under the sub-package's own name.
C7_SubPkgListedStarUnderCatchAll ==
    PkgReturned =>
        \A d \in dirs : (d \in inits /\ basename(d) # "__pycache__") =>
            /\ InSeq(DottedName(d), ResPackages)
            /\ InSeq("*", DictGet(ResPkgData, ""))
            /\ ~InSeq("*", DictGet(ResPkgData, DottedName(d)))

C7_Witness ==
    /\ PkgReturned
    /\ \E d \in dirs : d \in inits /\ basename(d) # "__pycache__" /\ Depth(d) >= 2

\* C8: for every visited directory D without __init__.py the pattern is
\* filed under the deepest proper ancestor recorded as a sub-package, as
\* <path of D relative to it>/*, and under the root package only when there
\* is no such ancestor; package_data holds no other pattern (but the
\* catch-all), and no key that is not a returned package.
C8_NearestAncestor ==
    PkgReturned =>
        /\ \A d \in DataDirs :
              InSeq(ExpectedGlob(d), DictGet(ResPkgData, DottedName(Boundary(d))))
        /\ \A k \in DOMAIN ResPkgData \ {""} :
              /\ InSeq(k, ResPackages)
              /\ \A i \in 1..Len(ResPkgData[k]) :
                    \E d \in DataDirs : /\ DottedName(Boundary(d)) = k
                                        /\ ExpectedGlob(d) = ResPkgData[k][i]

\* a data directory two levels below its boundary, and one with two
\* sub-package ancestors
C8_Witness ==
    /\ PkgReturned
    /\ \E d \in DataDirs :
          /\ Boundary(d) # "."
          /\ \/ Depth(d) - Depth(Boundary(d)) >= 2
             \/ Cardinality(ProperAncestors(d) \cap RecordedSubPkgs) >= 2

\* C9 as stated: no directory that is __pycache__ or lies below one is
\* recorded as a sub-package or contributes a pattern to package_data.
C9_PycachePruned ==
    PkgReturned =>
        \A d \in dirs : HasPycacheSegment(d) =>
            /\ ~InSeq(DottedName(d), ResPackages)
            /\ \A a \in ProperAncestors(d) :
                  ~InSeq(RelTo(d, a) \o "/*", DictGet(ResPkgData, DottedName(a)))

(***************************************************************************)
(* Specification SpecFilter: one call of find_tracked_files on any lists   *)
(* the version control system can report.                                  *)
(***************************************************************************)
Range(s) == {s[i] : i \in 1..Len(s)}

\* the lists of at most n distinct members of S
RECURSIVE ListsUpTo(_, _)
ListsUpTo(S, n) ==
    IF n = 0 THEN {<<>>}
    ELSE LET prev == ListsUpTo(S, n - 1)
         IN prev \cup UNION {{Append(l, x) : x \in S \ Range(l)} : l \in prev}

PathDirSegments == {"dist", "pkg", "__pycache__"}
PathFileSegments == {"m.py", "m.pyc", "setup.py"}

\* the directory parts of at most n segments ("" is the source root)
RECURSIVE DirPartsUpTo(_)
DirPartsUpTo(n) ==
    IF n = 0 THEN {""}
    ELSE LET prev == DirPartsUpTo(n - 1)
         IN prev \cup {d \o seg \o sep : d \in prev, seg \in PathDirSegments}

FilterPaths == {d \o f : d \in DirPartsUpTo(MaxPathDirs), f \in PathFileSegments}

InitFilter ==
    /\ PkgIdle
    /\ rawTracked \in ListsUpTo(FilterPaths, MaxTracked)
    /\ rawUntracked \in ListsUpTo(FilterPaths, MaxUntracked)
    /\ isPackage = FALSE /\ epochEnv = "" /\ disk = IdleDisk
    /\ pc = "find" /\ mtime = None
    /\ target = "absent" /\ gz = [state |-> "none", mtime |-> 0] /\ tf = "none"
    /\ files_to_add = <<>> /\ idx = 0 /\ entries = <<>> /\ error = "none"
    /\ closeLog = <<>> /\ setupCalls = 0 /\ run = 1 /\ archive1 = None

\* find_tracked_files, lines 174-183, as build() calls it inside its try
\* block (line 239); the for loop of line 241 starts at the first file
FindTrackedFiles ==
    /\ pc = "find"
    /\ \/ \* identify_vcs: the source root is under no known VCS
          /\ pc' = "finally" /\ error' = "VCSError: no VCS"
          /\ UNCHANGED <<files_to_add, idx>>
       \/ /\ UntrackedInScope(rawUntracked)
          /\ pc' = "finally" /\ error' = "VCSError: untracked or deleted files"
          /\ UNCHANGED <<files_to_add, idx>>
       \/ /\ ~UntrackedInScope(rawUntracked)
          /\ pc' = "loop" /\ files_to_add' = TrackedFiles(rawTracked) /\ idx' = 1
          /\ UNCHANGED error
    /\ UNCHANGED <<mtime, target, gz, tf, entries, closeLog, setupCalls, inputVars>>

NextFilter == FindTrackedFiles

SpecFilter == InitFilter /\ [][NextFilter]_vars

(***************************************************************************)
(* Properties of the file filter (specification SpecFilter).               *)
(***************************************************************************)
\* the paths the filter is to exclude: under top-level dist, or with a
\* directory segment __pycache__ at any depth, or ending in .pyc
ToBeExcluded(p) ==
    LET segs == Split(p, "/")
    IN \/ Len(segs) >= 2 /\ segs[1] = "dist"
       \/ \E i \in 1..(Len(segs) - 1) : segs[i] = "__pycache__"
       \/ EndsWith(p, ".pyc")

IsSortedList(l) == \A i, j \in 1..Len(l) : i < j => ~StrLess(l[j], l[i])

\* C6 as stated: find_tracked_files keeps exactly the tracked paths that are
\* not under top-level dist, have no directory segment __pycache__ (the
\* first segment included) and do not end in .pyc, sorted; and it refuses
\* exactly when an untracked or deleted path is kept by the same filter.
C6_FilterExact ==
    /\ pc = "loop" =>
          /\ Range(files_to_add) = {p \in Range(rawTracked) : ~ToBeExcluded(p)}
          /\ IsSortedList(files_to_add)
          /\ \A p \in Range(rawUntracked) : ToBeExcluded(p)
    /\ error = "VCSError: untracked or deleted files" =>
          \E p \in Range(rawUntracked) : ~ToBeExcluded(p)

(***************************************************************************)
(* The package that build() is run on.                                     *)
(***************************************************************************)
\* self.metadata; the package declares no requirements, no entry points and
\* no requires_python
Metadata ==
    [ name |-> "foo", version |-> "1.0", summary |-> "Foo.", author |-> "A",
      author_email |-> "a@example.com", home_page |-> "" ]
ModuleName == "foo"

\* the directories of the module on disk when it is a package
ModuleDirs == {"sub", "sub/res", "data"}
ModuleInits == {"sub"}

\* the files of the source tree the VCS can list as tracked, and what lstat
\* and read report for each; these are the same in a rebuild
BuildPaths == {"setup.py", "PKG-INFO", "foo.py", "foo/setup.py", "README"}
FileKind(p) == IF p = "README" THEN "sym" ELSE "reg"
FileLinkTarget(p) == IF p = "README" THEN "docs/README.rst" ELSE ""
FileStMode(p) == IF p = "README" THEN 511 ELSE IF p = "foo.py" THEN 509 ELSE 436
FileData(p) == IF FileKind(p) = "reg" THEN "bytes of " \o p ELSE ""

\* the paths the VCS can list as untracked or deleted
UntrackedPaths == {"notes.txt", "dist/foo-0.9.tar.gz", "foo.pyc"}

\* what stat can report for the owner and the times of the files of a checkout
Disks ==
    { [st_mtime |-> 1000, st_uid |-> 0, st_gid |-> 0,
       uname |-> "root", gname |-> "root"],
      [st_mtime |-> 2000, st_uid |-> 1000, st_gid |-> 100,
       uname |-> "dev", gname |-> "users"] }

\* values of SOURCE_DATE_EPOCH: unset or empty, two timestamps, a malformed one
EpochValues == {"", "5", "17", "x5"}

\* time.time() when the gzip header is written
ClockValues == {3000, 4000}

(***************************************************************************)
(* int(source_date_epoch).                                                 *)
(***************************************************************************)
Digits == "0123456789"
IsDigit(c) == \E d \in 1..Len(Digits) : SubSeq(Digits, d, d) = c
DigitValue(c) == (CHOOSE d \in 1..Len(Digits) : SubSeq(Digits, d, d) = c) - 1

\* int(s) raises ValueError
IsMalformedInt(s) ==
    s = "" \/ \E i \in 1..Len(s) : ~IsDigit(SubSeq(s, i, i))

RECURSIVE IntOfDigits(_, _)
IntOfDigits(s, acc) ==
    IF s = "" THEN acc
    ELSE IntOfDigits(Tail(s), 10 * acc + DigitValue(Head(s)))

\* int(s) for a string of decimal digits
int(s) == IntOfDigits(s, 0)

(***************************************************************************)
(* SdistBuilder.make_setup_py.                                             *)
(***************************************************************************)
RECURSIVE SetToList(_)
SetToList(S) ==
    IF S = {} THEN <<>>
    ELSE LET x == CHOOSE y \in S : TRUE IN <<x>> \o SetToList(S \ {x})

\* repr of a str without quotes or escapes in it
Repr(str) == "'" \o str \o "'"

\* pprint.pformat of a list of str and of a dict from str to such lists (keys
\* sorted), for values that fit on one line
PFormatList(l) == "[" \o Join([i \in 1..Len(l) |-> Repr(l[i])], ", ") \o "]"
PFormatDict(d) ==
    LET keys == Sorted(SetToList(DOMAIN d))
    IN "{" \o Join([i \in 1..Len(keys) |->
                       Repr(keys[i]) \o ": " \o PFormatList(d[keys[i]])], ", ")
           \o "}"

\* the complete sequences os.walk can yield for a tree
RECURSIVE WalksFrom(_, _)
WalksFrom(tree, yielded) ==
    IF NextYields(tree, yielded) = {} THEN {yielded}
    ELSE UNION {WalksFrom(tree, Append(yielded, d)) : d \in NextYields(tree, yielded)}
WalkOrders(tree) == WalksFrom(tree, <<>>)

\* the for loop of auto_packages run over a whole walk
RECURSIVE WalkAll(_, _, _)
WalkAll(loc, order, withInit) ==
    IF order = <<>> THEN loc
    ELSE WalkAll(VisitDir(loc, FullPath(Head(order)), FileNames(Head(order), withInit)),
                 Tail(order), withInit)

\* auto_packages(str(self.module.path)) when os.walk yields in this order
auto_packages(order, withInit) == Returned(WalkAll(InitialLocals, order, withInit))

\* SETUP.format(...), lines 18-33 and 212-221
SetupText(before, extra) ==
    "#!/usr/bin/env python\n"
    \o "# setup.py generated by flit for tools that don't yet use PEP 517\n\n"
    \o "from distutils.core import setup\n\n"
    \o before \o "\n"
    \o "setup(name=" \o Repr(Metadata.name) \o ",\n"
    \o "      version=" \o Repr(Metadata.version) \o ",\n"
    \o "      description=" \o Repr(Metadata.summary) \o ",\n"
    \o "      author=" \o Repr(Metadata.author) \o ",\n"
    \o "      author_email=" \o Repr(Metadata.author_email) \o ",\n"
    \o "      url=" \o Repr(Metadata.home_page) \o ",\n"
    \o "      " \o extra \o "\n"
    \o "     )\n"

\* make_setup_py, lines 186-221; install_reqs, extra_reqs, entrypoints and
\* requires_python are empty for this package, so lines 196-210 add nothing
make_setup_py(is_package, order) ==
    LET found == auto_packages(order, ModuleInits)
        before == IF is_package
                  THEN << "packages = \\\n" \o PFormatList(Sorted(found.packages)) \o "\n",
                          "package_data = \\\n" \o PFormatDict(found.pkg_data) \o "\n" >>
                  ELSE <<>>
        extra == IF is_package
                 THEN << "packages=packages,", "package_data=package_data," >>
                 ELSE << "py_modules=" \o PFormatList(<<ModuleName>>) \o "," >>
    IN SetupText(Join(before, "\n"), Join(extra, "\n      "))

\* PKG_INFO.format(...), lines 35-43 and 261-268
PkgInfoText ==
    "Metadata-Version: 1.1\n"
    \o "Name: " \o Metadata.name \o "\n"
    \o "Version: " \o Metadata.version \o "\n"
    \o "Summary: " \o Metadata.summary \o "\n"
    \o "Home-page: " \o Metadata.home_page \o "\n"
    \o "Author: " \o Metadata.author \o "\n"
    \o "Author-email: " \o Metadata.author_email \o "\n"

(***************************************************************************)
(* Archive members: tarfile.TarInfo, gettarinfo, clean_tarinfo, addfile.   *)
(***************************************************************************)
\* common.normalize_file_permissions: 0o755 (493) when the owner may execute
\* the file, else 0o644 (420)
normalize_file_permissions(st_mode) ==
    IF (st_mode \div 64) % 2 = 1 THEN 493 ELSE 420

\* tarfile.TarInfo(name): the defaults of a new member
TarInfo(name) ==
    [ name |-> name, type |-> "reg", linkname |-> "", size |-> 0, mode |-> 420,
      uid |-> 0, gid |-> 0, uname |-> "", gname |-> "", mtime |-> 0, data |-> "" ]

\* tf.gettarinfo(str(path), arcname=...): the member lstat describes
gettarinfo(relpath, arcname, dsk) ==
    [ name |-> arcname, type |-> FileKind(relpath),
      linkname |-> FileLinkTarget(relpath),
      size |-> Len(FileData(relpath)), mode |-> FileStMode(relpath),
      uid |-> dsk.st_uid, gid |-> dsk.st_gid,
      uname |-> dsk.uname, gname |-> dsk.gname,
      mtime |-> dsk.st_mtime, data |-> "" ]

\* clean_tarinfo that leaves the owner ids as lstat gave them
clean_tarinfo_keepOwner(ti, mt) ==
    [ti EXCEPT !.uname = "", !.gname = "",
               !.mode = normalize_file_permissions(@),
               !.mtime = IF mt # None THEN mt[1] ELSE @]

clean_tarinfo(ti, mt) ==
    [ti EXCEPT !.uid = 0, !.gid = 0, !.uname = "", !.gname = "",
               !.mode = normalize_file_permissions(@),
               !.mtime = IF mt # None THEN mt[1] ELSE @]

\* tf.addfile(ti, fileobj): the member as written, with ti.size bytes of data
addfile(ti, bytes) == [ti EXCEPT !.data = SubSeq(bytes, 1, ti.size)]

\* '{}-{}'.format(self.metadata.name, self.metadata.version)
tf_dir == Metadata.name \o "-" \o Metadata.version

\* an arcname that drops the directory of the file
ArcName_flat(relpath) == pjoin(tf_dir, basename(relpath))

\* arcname of line 243
ArcName(relpath) == pjoin(tf_dir, relpath)

\* lines 243-250: the member written for one tracked file
FileMember(relpath, mt, dsk) ==
    LET ti == clean_tarinfo(gettarinfo(relpath, ArcName(relpath), dsk), mt)
    IN IF ti.type = "reg" THEN addfile(ti, FileData(relpath)) ELSE addfile(ti, "")

\* a test that never finds the repository's setup.py
HasRepoSetupPy_never(files) == FALSE

\* line 252
HasRepoSetupPy(files) == InSeq("setup.py", files)

\* lines 257-259 and 269-271: a generated member
GeneratedMember(filename, text) ==
    addfile([TarInfo(pjoin(tf_dir, filename)) EXCEPT !.size = Len(text)], text)

(***************************************************************************)
(* SdistBuilder.build, step by step.  pc is the next statement: "start"    *)
(* (lines 224-231), "open_gz" (232), "open_tf" (233), "find" (239), "loop" *)
(* (241-259), "pkginfo" (261-271), "finally" (274), "close_gz" (275);      *)
(* "returned" and "raised" are the two ways the call ends.  A statement    *)
(* that does I/O can raise; an exception raised inside the try block runs  *)
(* the finally block, one raised outside it leaves build() at once.        *)
(***************************************************************************)
Init ==
    /\ PkgIdle
    /\ rawTracked \in ListsUpTo(BuildPaths, MaxTracked)
    /\ rawUntracked \in ListsUpTo(UntrackedPaths, MaxUntracked)
    /\ isPackage \in BOOLEAN
    /\ epochEnv \in EpochValues
    /\ disk \in Disks
    /\ target \in {"absent", "stale"}
    /\ pc = "start" /\ mtime = None
    /\ gz = [state |-> "none", mtime |-> 0] /\ tf = "none"
    /\ files_to_add = <<>> /\ idx = 0 /\ entries = <<>> /\ error = "none"
    /\ closeLog = <<>> /\ setupCalls = 0 /\ run = 1 /\ archive1 = None

\* lines 224-231: the target directory, the target path, mtime
BuildStart ==
    /\ pc = "start"
    /\ \/ \* target_dir.mkdir fails
          /\ pc' = "raised" /\ error' = "OSError" /\ UNCHANGED mtime
       \/ \* int(source_date_epoch) raises
          /\ epochEnv # "" /\ IsMalformedInt(epochEnv)
          /\ pc' = "raised" /\ error' = "ValueError" /\ UNCHANGED mtime
       \/ /\ epochEnv = "" \/ ~IsMalformedInt(epochEnv)
          /\ mtime' = IF epochEnv # "" THEN Some(int(epochEnv)) ELSE None
          /\ pc' = "open_gz" /\ UNCHANGED error
    /\ UNCHANGED <<target, gz, tf, files_to_add, idx, entries, closeLog,
                   setupCalls, inputVars>>

\* line 232: GzipFile(str(target), mode='wb', mtime=mtime) creates or
\* truncates the target file; with mtime None its header carries time.time()
OpenGzip ==
    /\ pc = "open_gz"
    /\ \/ \* the target cannot be opened for writing
          /\ pc' = "raised" /\ error' = "OSError" /\ UNCHANGED <<target, gz>>
       \/ \E now \in ClockValues :
             /\ gz' = [state |-> "open",
                       mtime |-> IF mtime = None THEN now ELSE mtime[1]]
             /\ target' = "truncated"
             /\ pc' = "open_tf" /\ UNCHANGED error
    /\ UNCHANGED <<mtime, tf, files_to_add, idx, entries, closeLog, setupCalls,
                   inputVars>>

\* line 233: tarfile.TarFile(..., fileobj=gz), before the try block
OpenTar ==
    /\ pc = "open_tf"
    /\ \/ /\ pc' = "raised" /\ error' = "TarError" /\ UNCHANGED tf
       \/ /\ tf' = "open" /\ pc' = "find" /\ UNCHANGED error
    /\ UNCHANGED <<mtime, target, gz, files_to_add, idx, entries, closeLog,
                   setupCalls, inputVars>>

\* lines 241-250: one iteration of the loop over files_to_add
AddFile ==
    /\ pc = "loop" /\ idx <= Len(files_to_add)
    /\ \/ \* lstat, open, read or write fails
          /\ pc' = "finally" /\ error' = "OSError" /\ UNCHANGED <<idx, entries>>
       \/ /\ entries' = Append(entries, FileMember(files_to_add[idx], mtime, disk))
          /\ idx' = idx + 1
          /\ UNCHANGED <<pc, error>>
    /\ UNCHANGED <<mtime, target, gz, tf, files_to_add, closeLog, setupCalls,
                   inputVars>>

\* lines 252-259, after the loop: the setup.py of the archive
AddSetupPy ==
    /\ pc = "loop" /\ idx > Len(files_to_add)
    /\ \/ /\ HasRepoSetupPy(files_to_add)
          /\ pc' = "pkginfo" /\ UNCHANGED <<entries, setupCalls, error>>
       \/ /\ ~HasRepoSetupPy(files_to_add)
          /\ setupCalls' = setupCalls + 1
          /\ \/ \E order \in WalkOrders(ModuleDirs) :
                   /\ entries' = Append(entries,
                          GeneratedMember("setup.py", make_setup_py(isPackage, order)))
                   /\ pc' = "pkginfo" /\ UNCHANGED error
             \/ \* os.walk or the write fails
                /\ pc' = "finally" /\ error' = "OSError" /\ UNCHANGED entries
    /\ UNCHANGED <<mtime, target, gz, tf, files_to_add, idx, closeLog, inputVars>>

\* lines 261-271: PKG-INFO, whatever the repository tracks
AddPkgInfo ==
    /\ pc = "pkginfo"
    /\ \/ /\ entries' = Append(entries, GeneratedMember("PKG-INFO", PkgInfoText))
          /\ UNCHANGED error
       \/ /\ error' = "OSError" /\ UNCHANGED entries
    /\ pc' = "finally"
    /\ UNCHANGED <<mtime, target, gz, tf, files_to_add, idx, closeLog, setupCalls,
                   inputVars>>

\* line 274, in the finally block: tf.close() marks the TarFile closed, then
\* writes the end-of-archive blocks to gz, which can fail as any write can;
\* its exception leaves the finally block, and build(), at once
CloseTar ==
    /\ pc = "finally"
    /\ tf' = "closed"
    /\ closeLog' = Append(closeLog, "tf")
    /\ \/ /\ pc' = "close_gz" /\ UNCHANGED error
       \/ /\ pc' = "raised" /\ error' = "OSError"
    /\ UNCHANGED <<mtime, target, gz, files_to_add, idx, entries, setupCalls,
                   inputVars>>

\* line 275: gz.close() flushes what was written to the target file and
\* releases it, also when the flush fails; then build() returns (line 278)
\* or re-raises the exception of the try block
CloseGz ==
    /\ pc = "close_gz"
    /\ gz' = [gz EXCEPT !.state = "closed"]
    /\ closeLog' = Append(closeLog, "gz")
    /\ target' = "written"
    /\ \/ /\ pc' = IF error = "none" THEN "returned" ELSE "raised"
          /\ UNCHANGED error
       \/ /\ pc' = "raised" /\ error' = "OSError"
    /\ UNCHANGED <<mtime, tf, files_to_add, idx, entries, setupCalls, inputVars>>

Next ==
    \/ BuildStart \/ OpenGzip \/ OpenTar \/ FindTrackedFiles \/ AddFile
    \/ AddSetupPy \/ AddPkgInfo \/ CloseTar \/ CloseGz

Spec == Init /\ [][Next]_vars

(***************************************************************************)
(* Specification SpecRebuild: build() run a second time on the same source *)
(* tree, possibly on another checkout (other owner and file times), at     *)
(* another time and with another SOURCE_DATE_EPOCH.                        *)
(***************************************************************************)
\* the first build starts on a clean tree (a tree with untracked files in
\* scope is never built) and with no archive in the target directory
InitRebuild ==
    /\ Init
    /\ rawUntracked = <<>>
    /\ target = "absent"

Rebuild ==
    /\ run = 1 /\ pc = "returned"
    /\ archive1' = Some([epoch |-> epochEnv, disk |-> disk,
                         entries |-> entries, gz_mtime |-> gz.mtime])
    /\ run' = 2
    /\ epochEnv' \in EpochValues
    /\ disk' \in Disks
    /\ pc' = "start" /\ mtime' = None
    /\ gz' = [state |-> "none", mtime |-> 0] /\ tf' = "none"
    /\ files_to_add' = <<>> /\ idx' = 0 /\ entries' = <<>> /\ error' = "none"
    /\ closeLog' = <<>> /\ setupCalls' = 0
    /\ UNCHANGED <<rawTracked, rawUntracked, isPackage, target, pkgVars>>

NextRebuild == Next \/ Rebuild

SpecRebuild == InitRebuild /\ [][NextRebuild]_vars

(***************************************************************************)
(* Properties of build() (specification Spec).                             *)
(***************************************************************************)
Ended == pc \in {"returned", "raised"}
SetupPyName == tf_dir \o "/setup.py"
PkgInfoName == tf_dir \o "/PKG-INFO"
\* the members of the archive named n
MembersNamed(n) == {i \in 1..Len(entries) : entries[i].name = n}
\* a member that make_setup_py's text was written to
IsGeneratedSetupPy(e) ==
    /\ e.name = SetupPyName
    /\ \E order \in WalkOrders(ModuleDirs) : e.data = make_setup_py(isPackage, order)

\* C1 as stated: when an untracked or deleted file passes the filter, build()
\* fails with the VCSError before the target file is created or modified,
\* and leaves no archive behind.
C1_NoArchiveOnUntracked ==
    error = "VCSError: untracked or deleted files" => target \in {"absent", "stale"}

\* C2 as stated: on every exit path of build() after the output handles have
\* been opened, the tar archive and its gzip wrapper both end up closed, the
\* archive first.
C2_HandlesClosedInOrder ==
    (Ended /\ tf # "none") =>
        /\ tf = "closed"
        /\ gz.state = "closed"
        /\ closeLog = <<"tf", "gz">>

\* C4 as stated: with SOURCE_DATE_EPOCH set to an integer T, every member of
\* the archive build() returns (the tracked files, the generated setup.py,
\* the generated PKG-INFO) has modification time T, and so has the gzip header.
C4_EveryEntryStamped ==
    (pc = "returned" /\ mtime # None) =>
        /\ \A i \in 1..Len(entries) : entries[i].mtime = mtime[1]
        /\ gz.mtime = mtime[1]

\* C5: in the archive build() returns, when setup.py is among the filtered
\* tracked files, the member <name>-<version>/setup.py holds that file's
\* bytes, make_setup_py was not called and no generated setup.py was added;
\* otherwise exactly one generated setup.py was added; in both cases the
\* generated PKG-INFO is the last member, after setup.py.
C5_SetupPyVerbatimOrGenerated ==
    pc = "returned" =>
        /\ IF InSeq("setup.py", files_to_add)
           THEN /\ \E i \in MembersNamed(SetupPyName) :
                      /\ entries[i].data = FileData("setup.py")
                      /\ entries[i].size = Len(FileData("setup.py"))
                /\ setupCalls = 0
                /\ \A i \in 1..Len(entries) : ~IsGeneratedSetupPy(entries[i])
           ELSE /\ Cardinality({i \in 1..Len(entries) :
                                    IsGeneratedSetupPy(entries[i])}) = 1
                /\ setupCalls = 1
        /\ Len(entries) >= 2
        /\ entries[Len(entries)].name = PkgInfoName
        /\ entries[Len(entries)].data = PkgInfoText
        /\ \A i \in MembersNamed(SetupPyName) : i < Len(entries)

C5_Witness ==
    /\ pc = "returned"
    /\ InSeq("setup.py", files_to_add)
    /\ Len(files_to_add) >= 2

\* C10 as stated: the paths of the members of an archive build() returns are
\* pairwise distinct, whatever the filtered tracked files are.
C10_DistinctPaths ==
    pc = "returned" =>
        \A i, j \in 1..Len(entries) : i # j => entries[i].name # entries[j].name

\* C10 amended: the paths of the members are pairwise distinct when the
\* filtered tracked files do not include a top-level PKG-INFO (they may
\* include a top-level setup.py).
C10_DistinctUnlessPkgInfoTracked ==
    (pc = "returned" /\ ~InSeq("PKG-INFO", files_to_add)) =>
        \A i, j \in 1..Len(entries) : i # j => entries[i].name # entries[j].name

C10_Witness ==
    /\ pc = "returned"
    /\ InSeq("setup.py", files_to_add)
    /\ InSeq("foo/setup.py", files_to_add)

(***************************************************************************)
(* Properties of a rebuild (specification SpecRebuild).                    *)
(***************************************************************************)
Rebuilt == run = 2 /\ pc = "returned"
SameArchive ==
    /\ archive1[1].entries = entries
    /\ archive1[1].gz_mtime = gz.mtime

====
